---- MODULE Spec2Model ----
(***************************************************************************)
(* Model of examples/tic_tac_toe.cpp: class TicTacToe and its game loop.   *)
(* The board is std::array<char, 9> indexed 0..8, a cell is ' ', 'X' or    *)
(* 'O'.  One action per step of TicTacToe::run between two observable      *)
(* points of the loop.                                                     *)
(***************************************************************************)
EXTENDS Integers, Sequences, FiniteSets, TLC

\* ------------------------------------------------------------------------
\* Bounds of the model and constants of the program
\* ------------------------------------------------------------------------

\* the numeric input lines are the decimal forms of -1 .. MaxChoice
MaxChoice == 10

\* std::numeric_limits<int>::max(), the range of std::stoi's result
INT_MAX == 2147483647

Empty == " "

Players == {"X", "O"}

Cells == {Empty, "X", "O"}

Indices == 0 .. 8

Boards == [Indices -> Cells]

\* ------------------------------------------------------------------------
\* Input lines: sequences of characters, as std::getline delivers them
\* ------------------------------------------------------------------------

DigitChars == <<"0", "1", "2", "3", "4", "5", "6", "7", "8", "9">>

IsDigit(c) == \E d \in 1 .. 10 : DigitChars[d] = c

DigitVal(c) == (CHOOSE d \in 1 .. 10 : DigitChars[d] = c) - 1

\* '1' + index, the placeholder draw_board shows for an empty cell
CharOfDigit(d) == DigitChars[d + 1]

RECURSIVE Decimal(_)
Decimal(n) ==
    IF n < 10 THEN <<CharOfDigit(n)>>
    ELSE Decimal(n \div 10) \o <<CharOfDigit(n % 10)>>

\* the decimal text of an integer, as a player types it
ToLine(n) == IF n < 0 THEN <<"-">> \o Decimal(-n) ELSE Decimal(n)

NumericLines == {ToLine(n) : n \in -1 .. MaxChoice}

OtherLines ==
    { <<>>,
      <<"a", "b", "c">>,
      <<"5", "x">>,
      <<" ", "7">>,
      <<"2", "1", "4", "7", "4", "8", "3", "6", "4", "7">>,
      <<"2", "1", "4", "7", "4", "8", "3", "6", "4", "8">> }

InputLines == NumericLines \cup OtherLines

\* ------------------------------------------------------------------------
\* std::stoi(line): skip leading white space, an optional sign, then the
\* longest run of decimal digits; no digit -> std::invalid_argument, value
\* outside int -> std::out_of_range.  Trailing characters are ignored.
\* ------------------------------------------------------------------------

IsSpace(c) == c \in {" ", "\t"}

RECURSIVE SkipSpace(_, _)
SkipSpace(s, i) ==
    IF i <= Len(s) /\ IsSpace(s[i]) THEN SkipSpace(s, i + 1) ELSE i

\* smallest (most negative) accumulator that can still take digit d
NegLimit(d) ==
    IF d = 0 THEN -(INT_MAX \div 10) ELSE -((INT_MAX + 1 - d) \div 10)

PosLimit(d) == (INT_MAX - d) \div 10

RECURSIVE ParseDigits(_, _, _, _, _, _)
ParseDigits(s, i, neg, acc, any, ovf) ==
    IF i > Len(s) \/ ~IsDigit(s[i])
    THEN [any |-> any, val |-> acc, ovf |-> ovf]
    ELSE LET d == DigitVal(s[i]) IN
         IF ovf \/ (neg /\ acc < NegLimit(d)) \/ (~neg /\ acc > PosLimit(d))
         THEN ParseDigits(s, i + 1, neg, acc, TRUE, TRUE)
         ELSE ParseDigits(s, i + 1, neg,
                          IF neg THEN acc * 10 - d ELSE acc * 10 + d,
                          TRUE, FALSE)

stoi(s) ==
    LET i0  == SkipSpace(s, 1)
        sgn == i0 <= Len(s) /\ s[i0] \in {"+", "-"}
        neg == sgn /\ s[i0] = "-"
        i1  == IF sgn THEN i0 + 1 ELSE i0
        r   == ParseDigits(s, i1, neg, 0, FALSE, FALSE)
    IN  IF ~r.any THEN [kind |-> "invalid_argument", value |-> 0]
        ELSE IF r.ovf THEN [kind |-> "out_of_range", value |-> 0]
        ELSE [kind |-> "ok", value |-> r.val]

\* ------------------------------------------------------------------------
\* The members of TicTacToe as operators on (board, player)
\* ------------------------------------------------------------------------

\* reset(): board_.fill(' ')
reset_board == [i \in Indices |-> Empty]

\* reset(): current_player_ = 'X'
reset_player == "X"

\* place_mark without the test that the cell is free
place_mark_overwrite(b, player, position) ==
    IF position < 1 \/ position > 9
    THEN [ret |-> FALSE, board |-> b]
    ELSE [ret |-> TRUE, board |-> [b EXCEPT ![position - 1] = player]]

\* place_mark writing the mark of the player who is not to move
place_mark_other(b, player, position) ==
    IF position < 1 \/ position > 9 \/ b[position - 1] # Empty
    THEN [ret |-> FALSE, board |-> b]
    ELSE [ret |-> TRUE,
          board |-> [b EXCEPT ![position - 1] = IF player = "X" THEN "O" ELSE "X"]]

\* place_mark(position): the returned bool and the board it leaves
place_mark(b, player, position) ==
    IF position < 1 \/ position > 9
    THEN [ret |-> FALSE, board |-> b]
    ELSE LET index == position - 1 IN
         IF b[index] # Empty
         THEN [ret |-> FALSE, board |-> b]
         ELSE [ret |-> TRUE, board |-> [b EXCEPT ![index] = player]]

\* the table of lines without the two diagonals
wins_no_diagonals ==
    << <<0, 1, 2>>, <<3, 4, 5>>, <<6, 7, 8>>,
       <<0, 3, 6>>, <<1, 4, 7>>, <<2, 5, 8>> >>

\* constexpr int wins[8][3]
wins ==
    << <<0, 1, 2>>, <<3, 4, 5>>, <<6, 7, 8>>,
       <<0, 3, 6>>, <<1, 4, 7>>, <<2, 5, 8>>,
       <<0, 4, 8>>, <<2, 4, 6>> >>

\* the test of one line without `a != ' '`
line_wins_any_equal(b, ln) == b[ln[1]] = b[ln[2]] /\ b[ln[2]] = b[ln[3]]

\* the test of one line inside has_winner's loop
line_wins(b, ln) ==
    LET a  == b[ln[1]]
        bb == b[ln[2]]
        c  == b[ln[3]]
    IN  a # Empty /\ a = bb /\ bb = c

RECURSIVE has_winner_from(_, _)
has_winner_from(b, k) ==
    IF k > Len(wins) THEN FALSE
    ELSE IF line_wins(b, wins[k]) THEN TRUE
    ELSE has_winner_from(b, k + 1)

\* has_winner(): the loop over wins with its early return
has_winner(b) == has_winner_from(b, 1)

\* is_draw with the loop ending one cell early
is_draw_short(b) == \A i \in 0 .. 7 : b[i] # Empty

RECURSIVE is_draw_from(_, _)
is_draw_from(b, i) ==
    IF i > 8 THEN TRUE
    ELSE IF b[i] = Empty THEN FALSE
    ELSE is_draw_from(b, i + 1)

\* is_draw(): the loop over the cells with its early return
is_draw(b) == is_draw_from(b, 0)

\* swap_player with both branches of the conditional yielding the same player
swap_player_stuck(player) == IF player = "X" THEN "X" ELSE "O"

\* swap_player()
swap_player(player) == IF player = "X" THEN "O" ELSE "X"

\* draw_board with the placeholder computed as '0' + index
draw_board_from_zero(b) ==
    [i \in Indices |-> IF b[i] = Empty THEN CharOfDigit(i) ELSE b[i]]

\* draw_board(): what each of the 9 cells displays
draw_board(b) ==
    [i \in Indices |-> IF b[i] = Empty THEN CharOfDigit(1 + i) ELSE b[i]]

\* ------------------------------------------------------------------------
\* Texts written to std::cout
\* ------------------------------------------------------------------------

Welcome == "Welcome to Tic Tac Toe! Players are X and O."

BoardText == "<board>"

PromptText(p) ==
    IF p = "X" THEN "Player X, choose a square (1-9): "
    ELSE "Player O, choose a square (1-9): "

WinText(p) == IF p = "X" THEN "Player X wins!" ELSE "Player O wins!"

DrawText == "It's a draw!"

ClosedText == "Input stream closed. Exiting."

InvalidText == "Invalid move. Try again."

NumberText == "Please enter a number between 1 and 9."

\* ------------------------------------------------------------------------
\* State
\* ------------------------------------------------------------------------

VARIABLES
    board_,            \* std::array<char, 9> board_
    current_player_,   \* char current_player_
    pc,                \* where TicTacToe::run stands
    line,              \* the std::string the last std::getline filled
    eof,               \* std::getline has failed: std::cin is exhausted
    out,               \* what the last step wrote to std::cout, in order
    screen,            \* the 9 cells as the last draw_board displayed them
    exited,            \* the process has ended
    exit_code,         \* its exit code, once exited
    announced,         \* terminal announcements written so far
    last_mark,         \* the mark the last accepted move placed, ' ' if none
    scen,              \* inputs of Scenario1 consumed, -1 once off script
    scen2,             \* inputs of Scenario1b consumed, -1 once off script
    last_out,          \* the last text written to std::cout so far
    targets,           \* the board indices of the moves accepted so far
    n_accepted         \* how many moves place_mark has accepted so far

vars ==
    <<board_, current_player_, pc, line, eof, out, screen, exited,
      exit_code, announced, last_mark, scen, scen2, last_out, targets,
      n_accepted>>

Terminal == {"Won", "Drawn", "Terminated"}

PcValues == {"AwaitingMove", "MoveAccepted", "NotWon", "NotDrawn"} \cup Terminal

\* the input lines "1", "2", "4", "3", "5", "7" of the first scenario
Scenario1 == <<ToLine(1), ToLine(2), ToLine(4), ToLine(3), ToLine(5), ToLine(7)>>

\* the same with the fourth line naming the cell O already holds
Scenario1b == <<ToLine(1), ToLine(2), ToLine(4), ToLine(2), ToLine(5), ToLine(7)>>

\* progress of the input read so far along a script
Follow(script, k, l) ==
    IF k >= 0 /\ k < Len(script) /\ script[k + 1] = l THEN k + 1 ELSE -1

\* ------------------------------------------------------------------------
\* prompt_move(): the prompt, std::getline, std::stoi and place_mark
\* ------------------------------------------------------------------------

\* std::stoi on each line the model feeds, computed once
parsed == [l \in InputLines |-> stoi(l)]

\* the outcome of prompt_move once std::getline has delivered line l
prompt_move(b, player, l) ==
    LET r == parsed[l] IN
    IF r.kind = "ok"
    THEN LET m == place_mark(b, player, r.value) IN
         IF m.ret
         THEN [ret |-> TRUE, board |-> m.board, choice |-> r.value,
               out |-> <<PromptText(player)>>]
         ELSE [ret |-> FALSE, board |-> m.board, choice |-> r.value,
               out |-> <<PromptText(player), InvalidText>>]
    ELSE [ret |-> FALSE, board |-> b, choice |-> 0,
          out |-> <<PromptText(player), NumberText>>]

\* the tail of std::cout after a step that wrote o
LastWritten(o, prev) == IF o = <<>> THEN prev ELSE o[Len(o)]

\* main() constructs the game and run() calls reset() and greets
Init ==
    /\ board_ = reset_board
    /\ current_player_ = reset_player
    /\ pc = "AwaitingMove"
    /\ line = <<>>
    /\ eof = FALSE
    /\ out = <<Welcome>>
    /\ screen = draw_board(reset_board)
    /\ exited = FALSE
    /\ exit_code = 0
    /\ announced = {}
    /\ last_mark = Empty
    /\ scen = 0
    /\ scen2 = 0
    /\ last_out = Welcome
    /\ targets = {}
    /\ n_accepted = 0

\* the exhausted stream reported like a bad move: no std::exit, return false
StreamClosed_no_exit ==
    /\ pc = "AwaitingMove"
    /\ screen' = draw_board(board_)
    /\ line' = <<>>
    /\ eof' = TRUE
    /\ out' = <<BoardText, PromptText(current_player_), ClosedText>>
    /\ announced' = announced \cup {ClosedText}
    /\ UNCHANGED <<board_, current_player_, pc, exited, exit_code, last_mark,
                   scen, scen2, targets,
                   n_accepted>>
    /\ last_out' = LastWritten(out', last_out)

\* run(): draw_board(); prompt_move() with std::cin exhausted: std::exit(0)
StreamClosed ==
    /\ pc = "AwaitingMove"
    /\ screen' = draw_board(board_)
    /\ line' = <<>>
    /\ eof' = TRUE
    /\ out' = <<BoardText, PromptText(current_player_), ClosedText>>
    /\ announced' = announced \cup {ClosedText}
    /\ exited' = TRUE
    /\ exit_code' = 0
    /\ pc' = "Terminated"
    /\ UNCHANGED <<board_, current_player_, last_mark, scen, scen2, targets,
                   n_accepted>>
    /\ last_out' = LastWritten(out', last_out)

\* the loop without `if (!prompt_move()) continue;`: every line read goes on
\* to the win check
PromptMove_no_continue ==
    /\ pc = "AwaitingMove"
    /\ \E l \in InputLines :
          LET r == prompt_move(board_, current_player_, l) IN
          /\ line' = l
          /\ screen' = draw_board(board_)
          /\ out' = <<BoardText>> \o r.out
          /\ board_' = r.board
          /\ pc' = "MoveAccepted"
          /\ last_mark' = IF r.ret THEN r.board[r.choice - 1] ELSE last_mark
          /\ scen' = Follow(Scenario1, scen, l)
          /\ scen2' = Follow(Scenario1b, scen2, l)
          /\ targets' = (IF r.ret THEN targets \cup {r.choice - 1} ELSE targets)
          /\ n_accepted' = (IF r.ret THEN n_accepted + 1 ELSE n_accepted)
    /\ UNCHANGED <<current_player_, eof, exited, exit_code, announced>>
    /\ last_out' = LastWritten(out', last_out)

\* run(): draw_board(); prompt_move() with one line read; `continue` on false
PromptMove ==
    /\ pc = "AwaitingMove"
    /\ \E l \in InputLines :
          LET r == prompt_move(board_, current_player_, l) IN
          /\ line' = l
          /\ screen' = draw_board(board_)
          /\ out' = <<BoardText>> \o r.out
          /\ board_' = r.board
          /\ pc' = IF r.ret THEN "MoveAccepted" ELSE "AwaitingMove"
          /\ last_mark' = IF r.ret THEN r.board[r.choice - 1] ELSE last_mark
          /\ scen' = Follow(Scenario1, scen, l)
          /\ scen2' = Follow(Scenario1b, scen2, l)
          /\ targets' = (IF r.ret THEN targets \cup {r.choice - 1} ELSE targets)
          /\ n_accepted' = (IF r.ret THEN n_accepted + 1 ELSE n_accepted)
    /\ UNCHANGED <<current_player_, eof, exited, exit_code, announced>>
    /\ last_out' = LastWritten(out', last_out)

\* the win check with swap_player() moved in front of the announcement
HasWinnerStep_swapped ==
    /\ pc = "MoveAccepted"
    /\ IF has_winner(board_)
       THEN /\ screen' = draw_board(board_)
            /\ current_player_' = swap_player(current_player_)
            /\ out' = <<BoardText, WinText(current_player_')>>
            /\ announced' = announced \cup {WinText(current_player_')}
            /\ exited' = TRUE
            /\ exit_code' = 0
            /\ pc' = "Won"
       ELSE /\ out' = <<>>
            /\ pc' = "NotWon"
            /\ UNCHANGED <<current_player_, screen, announced, exited, exit_code>>
    /\ UNCHANGED <<board_, line, eof, last_mark, scen, scen2, targets,
                   n_accepted>>
    /\ last_out' = LastWritten(out', last_out)

\* the loop body with is_draw() tested before has_winner()
HasWinnerStep_draw_first ==
    /\ pc = "MoveAccepted"
    /\ IF is_draw(board_)
       THEN /\ screen' = draw_board(board_)
            /\ out' = <<BoardText, DrawText>>
            /\ announced' = announced \cup {DrawText}
            /\ exited' = TRUE
            /\ exit_code' = 0
            /\ pc' = "Drawn"
       ELSE IF has_winner(board_)
       THEN /\ screen' = draw_board(board_)
            /\ out' = <<BoardText, WinText(current_player_)>>
            /\ announced' = announced \cup {WinText(current_player_)}
            /\ exited' = TRUE
            /\ exit_code' = 0
            /\ pc' = "Won"
       ELSE /\ out' = <<>>
            /\ pc' = "NotWon"
            /\ UNCHANGED <<screen, announced, exited, exit_code>>
    /\ UNCHANGED <<board_, current_player_, line, eof, last_mark, scen, scen2, targets,
                   n_accepted>>
    /\ last_out' = LastWritten(out', last_out)

\* the win announced without the draw_board() in front of it
HasWinnerStep_no_render ==
    /\ pc = "MoveAccepted"
    /\ IF has_winner(board_)
       THEN /\ out' = <<WinText(current_player_)>>
            /\ announced' = announced \cup {WinText(current_player_)}
            /\ exited' = TRUE
            /\ exit_code' = 0
            /\ pc' = "Won"
       ELSE /\ out' = <<>>
            /\ pc' = "NotWon"
            /\ UNCHANGED <<announced, exited, exit_code>>
    /\ UNCHANGED <<board_, current_player_, line, eof, screen, last_mark, scen,
                   scen2, targets, n_accepted>>
    /\ last_out' = LastWritten(out', last_out)

\* run(): if (has_winner()) { draw_board(); announce; break; } then main returns 0
HasWinnerStep ==
    /\ pc = "MoveAccepted"
    /\ IF has_winner(board_)
       THEN /\ screen' = draw_board(board_)
            /\ out' = <<BoardText, WinText(current_player_)>>
            /\ announced' = announced \cup {WinText(current_player_)}
            /\ exited' = TRUE
            /\ exit_code' = 0
            /\ pc' = "Won"
       ELSE /\ out' = <<>>
            /\ pc' = "NotWon"
            /\ UNCHANGED <<screen, announced, exited, exit_code>>
    /\ UNCHANGED <<board_, current_player_, line, eof, last_mark, scen, scen2, targets,
                   n_accepted>>
    /\ last_out' = LastWritten(out', last_out)

\* the draw announced without `break`: the loop goes on to swap_player()
IsDrawStep_no_break ==
    /\ pc = "NotWon"
    /\ IF is_draw(board_)
       THEN /\ screen' = draw_board(board_)
            /\ out' = <<BoardText, DrawText>>
            /\ announced' = announced \cup {DrawText}
       ELSE /\ out' = <<>>
            /\ UNCHANGED <<screen, announced>>
    /\ pc' = "NotDrawn"
    /\ UNCHANGED <<board_, current_player_, line, eof, exited, exit_code,
                   last_mark, scen, scen2, targets, n_accepted>>
    /\ last_out' = LastWritten(out', last_out)

\* run(): if (is_draw()) { draw_board(); announce; break; } then main returns 0
IsDrawStep ==
    /\ pc = "NotWon"
    /\ IF is_draw(board_)
       THEN /\ screen' = draw_board(board_)
            /\ out' = <<BoardText, DrawText>>
            /\ announced' = announced \cup {DrawText}
            /\ exited' = TRUE
            /\ exit_code' = 0
            /\ pc' = "Drawn"
       ELSE /\ out' = <<>>
            /\ pc' = "NotDrawn"
            /\ UNCHANGED <<screen, announced, exited, exit_code>>
    /\ UNCHANGED <<board_, current_player_, line, eof, last_mark, scen, scen2, targets,
                   n_accepted>>
    /\ last_out' = LastWritten(out', last_out)

\* run(): swap_player(); and the loop starts over
SwapPlayerStep ==
    /\ pc = "NotDrawn"
    /\ current_player_' = swap_player(current_player_)
    /\ out' = <<>>
    /\ pc' = "AwaitingMove"
    /\ UNCHANGED <<board_, line, eof, screen, exited, exit_code, announced,
                   last_mark, scen, scen2, targets,
                   n_accepted>>
    /\ last_out' = LastWritten(out', last_out)

Next ==
    \/ StreamClosed
    \/ PromptMove
    \/ HasWinnerStep
    \/ IsDrawStep
    \/ SwapPlayerStep

Spec == Init /\ [][Next]_vars

\* a line read that place_mark accepts
AcceptedMove == PromptMove /\ pc' = "MoveAccepted"

\* a line read that is turned down
RejectedMove == PromptMove /\ pc' = "AwaitingMove"

\* the program runs on by itself between two reads, and every prompt is
\* eventually answered by a valid move or by the end of the stream
FairSpec ==
    /\ Spec
    /\ WF_vars(HasWinnerStep)
    /\ WF_vars(IsDrawStep)
    /\ WF_vars(SwapPlayerStep)
    /\ WF_vars(StreamClosed \/ AcceptedMove)

\* has_winner and is_draw as functions of the board: every assignment of the
\* 9 cells and either player, at the point of run() where they are called
InitFn ==
    /\ board_ \in Boards
    /\ current_player_ \in Players
    /\ pc = "MoveAccepted"
    /\ line = <<>>
    /\ eof = FALSE
    /\ out = <<>>
    /\ screen = draw_board(board_)
    /\ exited = FALSE
    /\ exit_code = 0
    /\ announced = {}
    /\ last_mark = Empty
    /\ scen = -1
    /\ scen2 = -1
    /\ last_out = PromptText(current_player_)
    /\ targets = {}
    /\ n_accepted = 0

NextFn ==
    \/ HasWinnerStep
    \/ IsDrawStep
    \/ SwapPlayerStep

SpecFn == InitFn /\ [][NextFn]_vars

\* ------------------------------------------------------------------------
\* Vocabulary of the properties
\* ------------------------------------------------------------------------

\* the 8 lines: rows, columns, diagonals
Lines ==
    { {0, 1, 2}, {3, 4, 5}, {6, 7, 8},
      {0, 3, 6}, {1, 4, 7}, {2, 5, 8},
      {0, 4, 8}, {2, 4, 6} }

Owns(b, m, ln) == \A i \in ln : b[i] = m

HasLine(b) == \E ln \in Lines : \E m \in Players : Owns(b, m, ln)

Marked(b) == {i \in Indices : b[i] # Empty}

Full(b) == Marked(b) = Indices

\* the integer the last line read stands for
Position == parsed[line].value

\* this step reads a line that std::stoi turns into an integer
ReadsInteger == pc = "AwaitingMove" /\ ~eof' /\ parsed[line'].kind = "ok"

\* this step is a move that place_mark accepts
Accepts == pc = "AwaitingMove" /\ pc' = "MoveAccepted"

\* the positions the lines of Scenario1 stand for
Moves1 == <<1, 2, 4, 3, 5, 7>>

\* the board after the first k of those positions were each accepted in turn
BoardAfter1(k) ==
    [i \in Indices |->
        IF \E j \in 1 .. k : Moves1[j] = i + 1
        THEN IF (CHOOSE j \in 1 .. k : Moves1[j] = i + 1) % 2 = 1 THEN "X" ELSE "O"
        ELSE Empty]

TypeOK ==
    /\ board_ \in Boards
    /\ current_player_ \in Players
    /\ pc \in PcValues
    /\ eof \in BOOLEAN
    /\ exited \in BOOLEAN

\* ------------------------------------------------------------------------
\* Properties
\* ------------------------------------------------------------------------

\* C1: a move whose position is below 1, above 9 or names a marked cell
\* leaves all 9 cells and the current player as they were, is answered with
\* "Invalid move. Try again.", and the loop prompts the same player again.
C1_RejectedMoveChangesNothing ==
    [][ /\ (ReadsInteger /\ LET p == parsed[line'].value IN
                               p < 1 \/ p > 9 \/ board_[p - 1] \in Players)
           => /\ board_' = board_
              /\ current_player_' = current_player_
              /\ out' = <<BoardText, PromptText(current_player_), InvalidText>>
              /\ pc' = "AwaitingMove"
        /\ (pc = "AwaitingMove" /\ ~eof')
           => out'[2] = PromptText(current_player_)
      ]_vars

\* C1 witness: "5" typed by O was rejected because X holds cell 5
C1_Witness ==
    /\ pc = "AwaitingMove"
    /\ line = ToLine(5)
    /\ board_[4] = "X"
    /\ current_player_ = "O"
    /\ out = <<BoardText, PromptText("O"), InvalidText>>

\* C2: an accepted move with position p changes exactly cell p-1, from Empty
\* to the mark of the player who was current, and no other cell.
C2_AcceptedMoveMarksOneCell ==
    [][ Accepts =>
          LET p == parsed[line'].value IN
          /\ parsed[line'].kind = "ok"
          /\ p \in 1 .. 9
          /\ board_[p - 1] = Empty
          /\ board_'[p - 1] = current_player_
          /\ {i \in Indices : board_'[i] # board_[i]} = {p - 1}
      ]_vars

\* C2 witness: O has just been placed on cell 9 of a board with other marks
C2_Witness ==
    /\ pc = "MoveAccepted"
    /\ Position = 9
    /\ board_[8] = "O"
    /\ current_player_ = "O"
    /\ Cardinality(Marked(board_)) = 4

\* C3: the marks of successive accepted moves alternate X, O, X, O, ...
\* starting with X; the current player changes only in the swap_player step,
\* which is taken exactly when an accepted move neither won nor drew.
C3_StrictAlternation ==
    /\ [](pc = "NotDrawn" => (~HasLine(board_) /\ ~Full(board_)))
    /\ [][ /\ (Accepts =>
                 (/\ board_'[parsed[line'].value - 1] = last_mark'
                  /\ last_mark' = (IF last_mark = Empty THEN "X"
                                   ELSE IF last_mark = "X" THEN "O" ELSE "X")))
           /\ (~Accepts => last_mark' = last_mark)
           /\ (current_player_' # current_player_ => pc = "NotDrawn")
           /\ (pc = "NotDrawn" =>
                 (current_player_' # current_player_ /\ pc' = "AwaitingMove"))
           /\ ((pc' = "AwaitingMove" /\ pc # "AwaitingMove") => pc = "NotDrawn")
           /\ ((pc = "MoveAccepted" /\ HasLine(board_)) => pc' = "Won")
           /\ ((pc = "NotWon" /\ Full(board_)) => pc' = "Drawn")
         ]_vars

\* C3 witness: the fourth accepted move placed an O after X, O, X
C3_Witness ==
    /\ pc = "MoveAccepted"
    /\ last_mark = "O"
    /\ Cardinality({i \in Indices : board_[i] = "X"}) = 2
    /\ Cardinality({i \in Indices : board_[i] = "O"}) = 2

\* C4: has_winner is true exactly when one of the 8 lines holds three equal
\* non-empty marks (so false for the empty board and for three aligned empty
\* cells), and calling it changes neither the board nor the current player.
C4_HasWinnerIffLine ==
    /\ [](/\ has_winner(board_) = HasLine(board_)
          /\ (pc = "Won" => HasLine(board_))
          /\ (pc \in {"NotWon", "NotDrawn", "Drawn"} => ~HasLine(board_)))
    /\ [][ pc = "MoveAccepted" =>
              (/\ board_' = board_
               /\ current_player_' = current_player_
               /\ pc' = (IF HasLine(board_) THEN "Won" ELSE "NotWon"))
          ]_vars

\* C4 witness: has_winner returned false on a board with three aligned
\* empty cells
C4_Witness ==
    /\ pc = "NotWon"
    /\ \E ln \in Lines : \A i \in ln : board_[i] = Empty

\* C5: is_draw is true exactly when all 9 cells are non-empty and
\* has_winner is false, full boards with a completed line included.
C5_IsDrawIffFullAndNoWinner ==
    is_draw(board_) = (Full(board_) /\ ~has_winner(board_))

\* C6: "Player P wins!" names the player whose mark the last accepted move
\* placed, and the board then holds a line of three P through the cell
\* just played.
C6_WinnerIsLastMover ==
    /\ pc = "Won" => \E P \in Players : WinText(P) \in announced
    /\ \A P \in Players :
          WinText(P) \in announced =>
            /\ pc = "Won"
            /\ out = <<BoardText, WinText(P)>>
            /\ last_mark = P
            /\ parsed[line].kind = "ok"
            /\ Position \in 1 .. 9
            /\ board_[Position - 1] = P
            /\ \E ln \in Lines : (Position - 1) \in ln /\ Owns(board_, P, ln)

\* C6 witness: O has been announced as the winner
C6_Witness ==
    /\ pc = "Won"
    /\ WinText("O") \in announced
    /\ last_mark = "O"

\* C7: a move that fills the board and completes a line ends the session in
\* Won with the winner announced and no draw announced; a draw is announced
\* only right after has_winner returned false.
C7_WinBeforeDraw ==
    /\ [](/\ ((Full(board_) /\ HasLine(board_)) =>
                (pc \in {"MoveAccepted", "Won"} /\ DrawText \notin announced))
          /\ (DrawText \in announced => ~HasLine(board_)))
    /\ [][ /\ ((pc = "MoveAccepted" /\ Full(board_) /\ HasLine(board_)) =>
                (/\ pc' = "Won"
                 /\ WinText(current_player_) \in announced'
                 /\ DrawText \notin announced'))
           /\ ((DrawText \in announced' /\ DrawText \notin announced) =>
                (pc = "NotWon" /\ ~HasLine(board_)))
         ]_vars

\* C7 witness: the ninth mark completed a line and the session is in Won
C7_Witness ==
    /\ pc = "Won"
    /\ Full(board_)
    /\ announced = {WinText("X")}

\* C8: the inputs 1, 2, 4, 3, 5, 7 give accepted X=1, O=2, X=4, then 3 is
\* rejected for O as occupied, then accepted O=5 and X=7, X holds 1, 4, 7
\* and the session ends in Won with X announced.
C8_Scenario1AsStated ==
    /\ scen = 4 =>
          /\ pc = "AwaitingMove"
          /\ current_player_ = "O"
          /\ out = <<BoardText, PromptText("O"), InvalidText>>
    /\ scen = 6 =>
          /\ pc \in {"MoveAccepted", "Won"}
          /\ Owns(board_, "X", {0, 3, 6})
          /\ pc = "Won" => WinText("X") \in announced

\* C8 as amended: the inputs 1, 2, 4, 3, 5, 7 are six accepted moves X=1,
\* O=2, X=4, O=3, X=5, O=7 (cell 3 is empty when O names it), no input is
\* rejected, no line is completed, nothing is announced and X is prompted
\* next; the inputs 1, 2, 4, 2, 5, 7 give the rejection for O and then
\* O=5, X=7, X on 1, 4, 7 and Won with X announced.
C8_Scenario1 ==
    /\ scen >= 0 =>
          /\ board_ = BoardAfter1(scen)
          /\ pc \in {"AwaitingMove", "MoveAccepted", "NotWon", "NotDrawn",
                      "Terminated"}
          /\ announced \subseteq {ClosedText}
          /\ ~HasLine(board_)
          /\ pc = "AwaitingMove" =>
                /\ current_player_ = (IF scen % 2 = 0 THEN "X" ELSE "O")
                /\ scen > 0 => out = <<>>
    /\ scen2 = 4 =>
          /\ board_ = BoardAfter1(3)
          /\ current_player_ = "O"
          /\ pc \in {"AwaitingMove", "Terminated"}
          /\ pc = "AwaitingMove" =>
                out = <<BoardText, PromptText("O"), InvalidText>>
    /\ scen2 = 6 =>
          /\ pc \in {"MoveAccepted", "Won"}
          /\ board_ = [BoardAfter1(3) EXCEPT ![4] = "O", ![6] = "X"]
          /\ Owns(board_, "X", {0, 3, 6})
          /\ pc = "Won" =>
                /\ announced = {WinText("X")}
                /\ out = <<BoardText, WinText("X")>>

\* C8 witness: all six inputs of the scenario were accepted, X is to move
C8_Witness ==
    /\ scen = 6
    /\ pc = "AwaitingMove"
    /\ current_player_ = "X"
    /\ Marked(board_) = {0, 1, 2, 3, 4, 6}

\* C9: the session is in Drawn exactly when "It's a draw!" was printed,
\* which happens exactly for an accepted move that leaves all 9 cells
\* non-empty and no line of three; no win is announced in that session.
C9_DrawIffFullNoLine ==
    /\ [](/\ pc = "Drawn" <=> DrawText \in announced
          /\ pc = "Drawn" =>
                /\ Full(board_)
                /\ ~HasLine(board_)
                /\ announced = {DrawText}
                /\ out = <<BoardText, DrawText>>
          /\ (Full(board_) /\ ~HasLine(board_)) =>
                pc \in {"MoveAccepted", "NotWon", "Drawn"})
    /\ [][ /\ ((pc = "MoveAccepted" /\ Full(board_) /\ ~HasLine(board_)) =>
                 pc' = "NotWon")
           /\ ((pc = "NotWon" /\ Full(board_)) =>
                 (pc' = "Drawn" /\ DrawText \in announced'))
         ]_vars

\* C9 witness: a session that ended in a draw
C9_Witness ==
    /\ pc = "Drawn"
    /\ announced = {DrawText}
    /\ Full(board_)

\* C10: in every state awaiting a move the stream may close, and when it
\* does the session is Terminated with "Input stream closed. Exiting."
\* written last, exit code 0, board and current player untouched; nothing
\* happens after Terminated.
C10_ClosureTerminates ==
    /\ [](/\ pc = "AwaitingMove" => ENABLED StreamClosed
          /\ pc = "Terminated" =>
                /\ exited
                /\ exit_code = 0
                /\ out[Len(out)] = ClosedText
                /\ announced = {ClosedText})
    /\ [][ /\ ((pc = "AwaitingMove" /\ eof') =>
                 (/\ pc' = "Terminated"
                  /\ out' = <<BoardText, PromptText(current_player_), ClosedText>>
                  /\ exited'
                  /\ exit_code' = 0
                  /\ board_' = board_
                  /\ current_player_' = current_player_))
           /\ pc # "Terminated"
         ]_vars

\* C10 witness: the stream closed in mid-game, with O to move
C10_Witness ==
    /\ pc = "Terminated"
    /\ eof
    /\ exit_code = 0
    /\ current_player_ = "O"
    /\ Cardinality(Marked(board_)) = 3

\* a line that is an optional sign followed by one or more digits and
\* nothing else
WholeInteger(l) ==
    LET body == IF l # <<>> /\ l[1] \in {"+", "-"} THEN Tail(l) ELSE l
    IN  body # <<>> /\ \A k \in 1 .. Len(body) : IsDigit(body[k])

\* the lines the claim calls not a valid integer: empty, non-numeric, or
\* digits followed by other characters
NotInteger(l) == ~WholeInteger(l) /\ (l = <<>> \/ ~IsSpace(l[1]))

\* C11: a line that is not a valid integer ("abc", the empty line, "5x") is
\* answered with "Please enter a number between 1 and 9.", no move is
\* applied, board and current player stay as they were and the same player
\* is prompted again.
C11_NonIntegerLineRejected ==
    [][ (pc = "AwaitingMove" /\ ~eof' /\ NotInteger(line')) =>
          (/\ out' = <<BoardText, PromptText(current_player_), NumberText>>
           /\ board_' = board_
           /\ current_player_' = current_player_
           /\ pc' = "AwaitingMove")
      ]_vars

\* the 1-based position numbers as displayed
PositionNumbers == <<"1", "2", "3", "4", "5", "6", "7", "8", "9">>

\* what a cell shows: its mark if occupied, else its position number
Shown(b, i) == IF b[i] \in Players THEN b[i] ELSE PositionNumbers[i + 1]

\* C12: for every board and every index i in 0..8 render displays the mark
\* of an occupied cell and the digit i+1 of an empty one, and a step that
\* renders changes neither the board nor the current player.
C12_RenderShowsMarkOrNumber ==
    /\ [](\A i \in Indices : /\ draw_board(board_)[i] = Shown(board_, i)
                             /\ screen[i] = Shown(board_, i))
    /\ [][ (out' # <<>> /\ out'[1] = BoardText) =>
             (/\ board_' = board_
              /\ current_player_' = current_player_
              /\ \A i \in Indices : screen'[i] = Shown(board_, i))
         ]_vars

\* C12 witness: the final board was rendered with marks and position numbers
C12_Witness ==
    /\ pc = "Won"
    /\ out[1] = BoardText
    /\ screen[0] = "X" /\ screen[1] = "X" /\ screen[2] = "X"
    /\ screen[4] = "O"
    /\ screen[8] = "9"

\* C13: Won, Drawn and Terminated are absorbing: no step leaves or changes
\* them, so no input is read, no cell or player changes and nothing more is
\* announced; a session makes at most one of the terminal announcements.
C13_TerminalAbsorbing ==
    /\ [](/\ Cardinality(announced) <= 1
          /\ pc \in Terminal <=> announced # {}
          /\ pc \in Terminal <=> exited
          /\ pc = "Won" <=> (\E P \in Players : WinText(P) \in announced)
          /\ pc = "Drawn" <=> DrawText \in announced
          /\ pc = "Terminated" <=> ClosedText \in announced)
    /\ [][pc \notin Terminal]_vars

\* C13 witness: a session that ended with X's win before the board was full
C13_Witness ==
    /\ pc = "Won"
    /\ exited
    /\ announced = {WinText("X")}
    /\ ~Full(board_)

\* C14: a rejected or unparsable input leaves the session in AwaitingMove
\* with the same board and player, and such an input is possible at every
\* prompt; when every prompt is eventually answered by a valid move or by
\* the end of the stream, the session reaches Won, Drawn or Terminated, and
\* never after more than 9 accepted moves.
C14_Termination ==
    /\ [](/\ pc = "AwaitingMove" => ENABLED RejectedMove
          /\ n_accepted <= 9)
    /\ [][ (out' # <<>> /\ out'[Len(out')] \in {InvalidText, NumberText}) =>
             (/\ pc = "AwaitingMove"
              /\ pc' = "AwaitingMove"
              /\ board_' = board_
              /\ current_player_' = current_player_
              /\ n_accepted' = n_accepted
              /\ ~exited')
         ]_vars
    /\ <>(pc \in Terminal)

\* C14 witness: a session that ended after nine accepted moves and some
\* rejected input on the way
C14_Witness ==
    /\ pc \in Terminal
    /\ n_accepted = 9
    /\ scen2 = -1

\* C15: the non-empty cells are exactly the cells the accepted moves
\* targeted, there are as many marks as accepted moves and never more than
\* 9, and a marked cell keeps its value for the rest of the session.
C15_MarksAreAcceptedMoves ==
    /\ [](/\ Marked(board_) = targets
          /\ Cardinality(Marked(board_)) = n_accepted
          /\ n_accepted <= 9)
    /\ [][ \A i \in Indices : board_[i] # Empty => board_'[i] = board_[i] ]_vars

\* C15 witness: six accepted moves, six marks, O rejected on a marked cell
C15_Witness ==
    /\ pc = "AwaitingMove"
    /\ n_accepted = 6
    /\ targets = {0, 2, 4, 5, 7, 8}
    /\ out = <<BoardText, PromptText("X"), InvalidText>>

\* the texts that must follow a render
AfterRender ==
    {PromptText("X"), PromptText("O"), WinText("X"), WinText("O"), DrawText}

\* C16: every prompt, re-prompts included, comes right after exactly one
\* render of the current board; every win or draw announcement comes right
\* after exactly one render of the board with the final move on it; the
\* closure message is the last output of its session.
C16_RenderBeforePromptAndResult ==
    [][ /\ out' # <<>> =>
             /\ \A k \in 1 .. Len(out') :
                   out'[k] \in AfterRender =>
                      /\ k = 2
                      /\ out'[1] = BoardText
                      /\ last_out # BoardText
             /\ \A k \in 1 .. Len(out') : out'[k] = BoardText => k = 1
             /\ out'[1] = BoardText
             /\ \A i \in Indices : screen'[i] = Shown(board_, i)
             /\ \A P \in Players :
                   out'[2] = PromptText(P) => P = current_player_
             /\ out'[2] \in {WinText("X"), WinText("O"), DrawText} =>
                   /\ board_' = board_
                   /\ board_[Position - 1] = last_mark
                   /\ screen'[Position - 1] = last_mark
             /\ \A k \in 1 .. Len(out') :
                   out'[k] = ClosedText => (k = Len(out') /\ pc' = "Terminated")
        /\ pc # "Terminated"
      ]_vars

\* C16 witness: O's winning board was rendered once, then announced
C16_Witness ==
    /\ pc = "Won"
    /\ out = <<BoardText, WinText("O")>>
    /\ last_out = WinText("O")
    /\ screen[Position - 1] = "O"

\* how many cells of b hold mark m
Count(b, m) == Cardinality({i \in Indices : b[i] = m})

\* C17: while a move is awaited the current player is X exactly when there
\* are as many X as O marks, and O exactly when there is one more X than O;
\* in every state the X count minus the O count is 0 or 1.
C17_TurnParity ==
    /\ Count(board_, "X") - Count(board_, "O") \in {0, 1}
    /\ pc = "AwaitingMove" =>
          /\ current_player_ = "X" <=> Count(board_, "X") = Count(board_, "O")
          /\ current_player_ = "O" <=>
                Count(board_, "X") = Count(board_, "O") + 1

\* C17 witness: O is awaited with three X and two O on the board
C17_Witness ==
    /\ pc = "AwaitingMove"
    /\ current_player_ = "O"
    /\ Count(board_, "X") = 3
    /\ Count(board_, "O") = 2

\* C18: while a move is awaited the board has no completed line and at
\* least one empty cell; in every state at most one player owns a line.
C18_OpenBoardWhileAwaiting ==
    /\ pc = "AwaitingMove" => (~HasLine(board_) /\ ~Full(board_))
    /\ ~(/\ \E ln \in Lines : Owns(board_, "X", ln)
         /\ \E ln \in Lines : Owns(board_, "O", ln))

\* C18 witness: a move is awaited with a single empty cell left
C18_Witness ==
    /\ pc = "AwaitingMove"
    /\ Cardinality(Marked(board_)) = 8
    /\ ~HasLine(board_)

\* C19: no win before the fifth accepted move; X is announced with 5, 7 or
\* 9 marks on the board, O with 6 or 8; Drawn only with 9 marks, 5 X and 4 O.
C19_OutcomeVersusMoveCount ==
    /\ pc = "Won" => n_accepted >= 5
    /\ WinText("X") \in announced =>
          (Cardinality(Marked(board_)) \in {5, 7, 9} /\ pc = "Won")
    /\ WinText("O") \in announced =>
          (Cardinality(Marked(board_)) \in {6, 8} /\ pc = "Won")
    /\ pc = "Drawn" =>
          /\ Cardinality(Marked(board_)) = 9
          /\ Count(board_, "X") = 5
          /\ Count(board_, "O") = 4

\* C19 witness: O announced as winner with eight marks on the board
C19_Witness ==
    /\ pc = "Won"
    /\ WinText("O") \in announced
    /\ Cardinality(Marked(board_)) = 8
    /\ n_accepted = 8

====
